---- MODULE Spec2Model ----
(***************************************************************************)
(* Actuation and safety-control layer of the combat robot firmware:        *)
(* ESC motor driver (motor.c), motor controller (motor_controller.c) and   *)
(* the controller-input glue (my_platform.c).                              *)
(*                                                                         *)
(* Two specifications are given over the same variables:                   *)
(*   Spec          the motor_controller_* API called in any order after    *)
(*                 motor_controller_init, with the millisecond clock       *)
(*                 advancing between calls;                                *)
(*   SpecPlatform  the platform callbacks of my_platform.c (init complete, *)
(*                 controller data, repeating timer, disconnect) from      *)
(*                 power-up.                                               *)
(*                                                                         *)
(* The millisecond clock and the two timestamps derived from it are        *)
(* uint32_t in the source.  They are kept at their full 32-bit width as a  *)
(* pair of 16-bit halves [hi, lo], with carry and borrow between them.     *)
(***************************************************************************)
EXTENDS Integers, Naturals, Sequences, FiniteSets, TLC

----------------------------------------------------------------------------
(* Configuration constants (config.h, motor.h, my_platform.c)              *)

DRIVE_MIN_US == 1000
DRIVE_MID_US == 1500
DRIVE_MAX_US == 2000
WEAPON_MIN_US == 1000
WEAPON_MID_US == 1500
WEAPON_MAX_US == 2000
ESC_ABS_MIN_US == 900
ESC_ABS_MAX_US == 2100
MOTOR_BIDIRECTIONAL == TRUE
MOTOR_MAX_SPEED == 100
MOTOR_DEADBAND == 10
FAILSAFE_ENABLED == TRUE
FAILSAFE_TIMEOUT_MS == 500
ARM_HOLD_TIME_MS == 5000
STICK_MIN == -512
STICK_MAX == 511
TRIGGER_MAX == 1023
THROTTLE_INVERT == -1
TIMER_PERIOD_MS == 100

(* last_throttle is a float in 0.0 .. 1.0; every value the driver stores   *)
(* is a multiple of 1/200 ((speed + 100) / 200.0f, |speed| / 100.0f, 0.5f, *)
(* 0.0f), so it is kept as its numerator over ThrottleDen.                 *)
ThrottleDen == 200

----------------------------------------------------------------------------
(* C integer helpers                                                       *)

abs(x) == IF x < 0 THEN -x ELSE x

(* C integer division truncates toward zero *)
CDiv(a, b) == IF (a >= 0) = (b > 0) THEN abs(a) \div abs(b) ELSE -(abs(a) \div abs(b))

U16 == 65536

(* uint32_t as two 16-bit halves *)
U32(h, l) == [hi |-> h, lo |-> l]

(* a + d (mod 2^32) for 0 <= d < 2^16 *)
u32_add(a, d) ==
    LET s == a.lo + d
    IN  U32((a.hi + s \div U16) % U16, s % U16)

(* a - b that stops at 0: no time has passed when a is below b, as it is  *)
(* once the clock has wrapped                                              *)
u32_sub_no_wrap(a, b) ==
    IF a.hi < b.hi \/ (a.hi = b.hi /\ a.lo < b.lo)
    THEN U32(0, 0)
    ELSE U32(a.hi - b.hi - (IF a.lo < b.lo THEN 1 ELSE 0), (a.lo - b.lo) % U16)

(* a - b (mod 2^32) *)
u32_sub(a, b) ==
    LET borrow == IF a.lo < b.lo THEN 1 ELSE 0
    IN  U32((a.hi - b.hi - borrow) % U16, (a.lo - b.lo) % U16)

(* comparisons of a uint32_t with a constant 0 <= k < 2^16 *)
u32_gt(a, k) == a.hi > 0 \/ a.lo > k
u32_ge(a, k) == a.hi > 0 \/ a.lo >= k

----------------------------------------------------------------------------
(* motor.c : one ESC channel.  pulse is the level last written to the PWM  *)
(* channel (pwm_set_chan_level), in microseconds.                          *)

ZeroMotor ==
    [min_us |-> 0, mid_us |-> 0, max_us |-> 0,
     last_throttle |-> 0, armed |-> FALSE, pulse |-> 0]

(* motor_set_pulse_us without the upper safety limit *)
motor_set_pulse_us_no_upper(motor, us) ==
    LET u == us % U16
    IN  [motor EXCEPT !.pulse = IF u < ESC_ABS_MIN_US THEN ESC_ABS_MIN_US ELSE u]

motor_set_pulse_us(motor, us) ==
    LET u == us % U16
        c == IF u < ESC_ABS_MIN_US THEN ESC_ABS_MIN_US
             ELSE IF u > ESC_ABS_MAX_US THEN ESC_ABS_MAX_US
             ELSE u
    IN  [motor EXCEPT !.pulse = c]

motor_init(motor, min_us, mid_us, max_us) ==
    motor_set_pulse_us(
        [motor EXCEPT !.min_us = min_us, !.mid_us = mid_us, !.max_us = max_us,
                      !.last_throttle = 0, !.armed = FALSE],
        min_us)

(* throttle is the numerator over ThrottleDen *)
motor_set_throttle(motor, throttle) ==
    LET t  == IF throttle < 0 THEN 0
              ELSE IF throttle > ThrottleDen THEN ThrottleDen
              ELSE throttle
        us == motor.min_us + (t * (motor.max_us - motor.min_us)) \div ThrottleDen
    IN  [motor_set_pulse_us(motor, us) EXCEPT !.last_throttle = t]

(* motor_set_speed that keeps the sign of a unidirectional speed *)
motor_set_speed_signed(motor, speed, bidirectional) ==
    LET s == IF speed < -100 THEN -100 ELSE IF speed > 100 THEN 100 ELSE speed
        throttle == IF bidirectional THEN s + 100 ELSE 2 * s
    IN  motor_set_throttle(motor, throttle)

motor_set_speed(motor, speed, bidirectional) ==
    LET s == IF speed < -100 THEN -100 ELSE IF speed > 100 THEN 100 ELSE speed
        throttle == IF bidirectional THEN s + 100 ELSE 2 * abs(s)
    IN  motor_set_throttle(motor, throttle)

(* motor_stop that idles every ESC at min_us *)
motor_stop_at_min(motor, bidirectional) ==
    [motor_set_pulse_us(motor, motor.min_us) EXCEPT !.last_throttle = 0]

motor_stop(motor, bidirectional) ==
    [motor_set_pulse_us(motor, IF bidirectional THEN motor.mid_us ELSE motor.min_us)
        EXCEPT !.last_throttle = IF bidirectional THEN ThrottleDen \div 2 ELSE 0]

motor_arm(motor) == [motor EXCEPT !.armed = TRUE]

(* motor_disarm that also stops the motor, as the comment in motor.h says *)
motor_disarm_and_stop(motor) ==
    [motor_set_pulse_us(motor, motor.min_us) EXCEPT !.armed = FALSE, !.last_throttle = 0]

motor_disarm(motor) == [motor EXCEPT !.armed = FALSE]

----------------------------------------------------------------------------
(* motor_controller.c                                                      *)

apply_deadband(value) == IF abs(value) < MOTOR_DEADBAND THEN 0 ELSE value

(* clamp without the lower limit *)
clamp_upper_only(value, min, max) ==
    IF value > max THEN max ELSE value

clamp(value, min, max) ==
    IF value < min THEN min ELSE IF value > max THEN max ELSE value

(* static motor_controller_t g_motors: zero-initialised storage *)
ZeroController ==
    [motor_left_front |-> ZeroMotor, motor_left_back |-> ZeroMotor,
     motor_right_front |-> ZeroMotor, motor_right_back |-> ZeroMotor,
     weapon |-> ZeroMotor,
     left_speed |-> 0, right_speed |-> 0, weapon_speed |-> 0,
     weapon_armed |-> FALSE,
     last_command_time_ms |-> U32(0, 0),
     failsafe_triggered |-> FALSE]

(* update_command_time that leaves failsafe_triggered as it is *)
update_command_time_keeps_latch(mc, t) ==
    [mc EXCEPT !.last_command_time_ms = t]

update_command_time(mc, t) ==
    [mc EXCEPT !.last_command_time_ms = t, !.failsafe_triggered = FALSE]

motor_controller_arm_weapon(mc) ==
    [mc EXCEPT !.weapon_armed = TRUE, !.weapon = motor_arm(mc.weapon)]

motor_controller_init(mc, t) ==
    LET m1 == [mc EXCEPT
                 !.motor_left_front  = motor_init(mc.motor_left_front, DRIVE_MIN_US, DRIVE_MID_US, DRIVE_MAX_US),
                 !.motor_left_back   = motor_init(mc.motor_left_back, DRIVE_MIN_US, DRIVE_MID_US, DRIVE_MAX_US),
                 !.motor_right_front = motor_init(mc.motor_right_front, DRIVE_MIN_US, DRIVE_MID_US, DRIVE_MAX_US),
                 !.motor_right_back  = motor_init(mc.motor_right_back, DRIVE_MIN_US, DRIVE_MID_US, DRIVE_MAX_US),
                 !.weapon            = motor_init(mc.weapon, WEAPON_MIN_US, WEAPON_MID_US, WEAPON_MAX_US),
                 !.left_speed = 0, !.right_speed = 0, !.weapon_speed = 0,
                 !.weapon_armed = FALSE,
                 !.last_command_time_ms = t,
                 !.failsafe_triggered = FALSE]
        m2 == [m1 EXCEPT
                 !.motor_left_front  = motor_stop(m1.motor_left_front, MOTOR_BIDIRECTIONAL),
                 !.motor_left_back   = motor_stop(m1.motor_left_back, MOTOR_BIDIRECTIONAL),
                 !.motor_right_front = motor_stop(m1.motor_right_front, MOTOR_BIDIRECTIONAL),
                 !.motor_right_back  = motor_stop(m1.motor_right_back, MOTOR_BIDIRECTIONAL),
                 !.left_speed = 0, !.right_speed = 0]
    IN  motor_controller_arm_weapon(m2)

(* set_left that drives the front motor only *)
motor_controller_set_left_front_only(mc, speed, t) ==
    LET s == clamp(apply_deadband(speed), -MOTOR_MAX_SPEED, MOTOR_MAX_SPEED)
    IN  update_command_time(
          [mc EXCEPT
             !.motor_left_front = motor_set_speed(mc.motor_left_front, s, MOTOR_BIDIRECTIONAL),
             !.left_speed = s],
          t)

motor_controller_set_left(mc, speed, t) ==
    LET s == clamp(apply_deadband(speed), -MOTOR_MAX_SPEED, MOTOR_MAX_SPEED)
    IN  update_command_time(
          [mc EXCEPT
             !.motor_left_front = motor_set_speed(mc.motor_left_front, s, MOTOR_BIDIRECTIONAL),
             !.motor_left_back  = motor_set_speed(mc.motor_left_back, s, MOTOR_BIDIRECTIONAL),
             !.left_speed = s],
          t)

(* set_right that skips apply_deadband *)
motor_controller_set_right_no_deadband(mc, speed, t) ==
    LET s == clamp(speed, -MOTOR_MAX_SPEED, MOTOR_MAX_SPEED)
    IN  update_command_time(
          [mc EXCEPT
             !.motor_right_front = motor_set_speed(mc.motor_right_front, s, MOTOR_BIDIRECTIONAL),
             !.motor_right_back  = motor_set_speed(mc.motor_right_back, s, MOTOR_BIDIRECTIONAL),
             !.right_speed = s],
          t)

motor_controller_set_right(mc, speed, t) ==
    LET s == clamp(apply_deadband(speed), -MOTOR_MAX_SPEED, MOTOR_MAX_SPEED)
    IN  update_command_time(
          [mc EXCEPT
             !.motor_right_front = motor_set_speed(mc.motor_right_front, s, MOTOR_BIDIRECTIONAL),
             !.motor_right_back  = motor_set_speed(mc.motor_right_back, s, MOTOR_BIDIRECTIONAL),
             !.right_speed = s],
          t)

motor_controller_tank_drive(mc, left, right, t) ==
    motor_controller_set_right(motor_controller_set_left(mc, left, t), right, t)

(* arcade_drive whose rescaling rounds toward minus infinity *)
motor_controller_arcade_drive_floor(mc, throttle, turn, t) ==
    LET th      == apply_deadband(throttle)
        tu      == apply_deadband(turn)
        left    == th + tu
        right   == th - tu
        max_val == IF abs(right) > abs(left) THEN abs(right) ELSE abs(left)
        l2      == IF max_val > MOTOR_MAX_SPEED
                   THEN (left * MOTOR_MAX_SPEED) \div max_val ELSE left
        r2      == IF max_val > MOTOR_MAX_SPEED
                   THEN (right * MOTOR_MAX_SPEED) \div max_val ELSE right
    IN  motor_controller_set_right(motor_controller_set_left(mc, l2, t), r2, t)

(* arcade_drive with the turn applied to the wrong sides *)
motor_controller_arcade_drive_swapped(mc, throttle, turn, t) ==
    LET th      == apply_deadband(throttle)
        tu      == apply_deadband(turn)
        left    == th - tu
        right   == th + tu
        max_val == IF abs(right) > abs(left) THEN abs(right) ELSE abs(left)
        l2      == IF max_val > MOTOR_MAX_SPEED
                   THEN CDiv(left * MOTOR_MAX_SPEED, max_val) ELSE left
        r2      == IF max_val > MOTOR_MAX_SPEED
                   THEN CDiv(right * MOTOR_MAX_SPEED, max_val) ELSE right
    IN  motor_controller_set_right(motor_controller_set_left(mc, l2, t), r2, t)

motor_controller_arcade_drive(mc, throttle, turn, t) ==
    LET th      == apply_deadband(throttle)
        tu      == apply_deadband(turn)
        left    == th + tu
        right   == th - tu
        max_val == IF abs(right) > abs(left) THEN abs(right) ELSE abs(left)
        l2      == IF max_val > MOTOR_MAX_SPEED
                   THEN CDiv(left * MOTOR_MAX_SPEED, max_val) ELSE left
        r2      == IF max_val > MOTOR_MAX_SPEED
                   THEN CDiv(right * MOTOR_MAX_SPEED, max_val) ELSE right
    IN  motor_controller_set_right(motor_controller_set_left(mc, l2, t), r2, t)

motor_controller_set_weapon(mc, speed, t) ==
    LET s == clamp(speed, 0, MOTOR_MAX_SPEED)
    IN  update_command_time(
          [mc EXCEPT
             !.weapon = motor_set_speed(mc.weapon, s, MOTOR_BIDIRECTIONAL),
             !.weapon_speed = s],
          t)

(* disarm_weapon that clears the flag but leaves the weapon running *)
motor_controller_disarm_weapon_keeps_speed(mc) ==
    [mc EXCEPT !.weapon_armed = FALSE, !.weapon = motor_disarm(mc.weapon)]

motor_controller_disarm_weapon(mc) ==
    [mc EXCEPT
       !.weapon_armed = FALSE,
       !.weapon = motor_set_speed(motor_disarm(mc.weapon), 0, MOTOR_BIDIRECTIONAL),
       !.weapon_speed = 0]

motor_controller_is_weapon_armed(mc) == mc.weapon_armed

(* stop_all that zeroes both stored speeds and stops the left side only *)
motor_controller_stop_all_left_only(mc) ==
    motor_controller_disarm_weapon(
      [mc EXCEPT
         !.motor_left_front  = motor_stop(mc.motor_left_front, MOTOR_BIDIRECTIONAL),
         !.motor_left_back   = motor_stop(mc.motor_left_back, MOTOR_BIDIRECTIONAL),
         !.left_speed = 0, !.right_speed = 0])

motor_controller_stop_all(mc) ==
    motor_controller_disarm_weapon(
      [mc EXCEPT
         !.motor_left_front  = motor_stop(mc.motor_left_front, MOTOR_BIDIRECTIONAL),
         !.motor_left_back   = motor_stop(mc.motor_left_back, MOTOR_BIDIRECTIONAL),
         !.motor_right_front = motor_stop(mc.motor_right_front, MOTOR_BIDIRECTIONAL),
         !.motor_right_back  = motor_stop(mc.motor_right_back, MOTOR_BIDIRECTIONAL),
         !.left_speed = 0, !.right_speed = 0])

(* elapsed = now - mc->last_command_time_ms, as uint32_t *)
failsafe_elapsed(mc, t) == u32_sub(t, mc.last_command_time_ms)

(* the condition under which motor_controller_check_failsafe calls         *)
(* motor_controller_stop_all                                               *)
failsafe_fires(mc, t) ==
    /\ FAILSAFE_ENABLED
    /\ u32_gt(failsafe_elapsed(mc, t), FAILSAFE_TIMEOUT_MS)
    /\ ~mc.failsafe_triggered

(* check_failsafe that does not latch failsafe_triggered *)
(* motor_controller_check_failsafe that sets the latch and leaves the      *)
(* motors running                                                          *)
motor_controller_check_failsafe_no_stop(mc, t) ==
    IF failsafe_fires(mc, t)
    THEN [mc EXCEPT !.failsafe_triggered = TRUE]
    ELSE mc

motor_controller_check_failsafe_no_latch(mc, t) ==
    IF failsafe_fires(mc, t) THEN motor_controller_stop_all(mc) ELSE mc

motor_controller_check_failsafe(mc, t) ==
    IF failsafe_fires(mc, t)
    THEN [motor_controller_stop_all(mc) EXCEPT !.failsafe_triggered = TRUE]
    ELSE mc

(* return value of a check_failsafe that compares with >= *)
check_failsafe_result_at_timeout(mc, t) ==
    FAILSAFE_ENABLED /\ u32_ge(failsafe_elapsed(mc, t), FAILSAFE_TIMEOUT_MS)

(* return value of motor_controller_check_failsafe *)
check_failsafe_result(mc, t) ==
    FAILSAFE_ENABLED /\ u32_gt(failsafe_elapsed(mc, t), FAILSAFE_TIMEOUT_MS)

(* get_status with the last assignment turned round: the caller's armed,   *)
(* false before the call, is written to the controller                     *)
motor_controller_get_status_writes_armed(mc) ==
    [mc |-> [mc EXCEPT !.weapon_armed = FALSE],
     left |-> mc.left_speed, right |-> mc.right_speed,
     weapon |-> mc.weapon_speed, armed |-> FALSE]

(* mc is the controller after the call, the other fields are the four      *)
(* out-parameters, all passed non-null by both callers                     *)
motor_controller_get_status(mc) ==
    [mc |-> mc,
     left |-> mc.left_speed, right |-> mc.right_speed,
     weapon |-> mc.weapon_speed, armed |-> mc.weapon_armed]

(* motor_controller_stop_all has this many statements once its call of     *)
(* motor_controller_disarm_weapon is written out                           *)
StopAllStmts == 10

(* the controller after statement k of motor_controller_stop_all *)
stop_all_stmt(mc, k) ==
    CASE k = 1 -> [mc EXCEPT !.motor_left_front  = motor_stop(mc.motor_left_front, MOTOR_BIDIRECTIONAL)]
      [] k = 2 -> [mc EXCEPT !.motor_left_back   = motor_stop(mc.motor_left_back, MOTOR_BIDIRECTIONAL)]
      [] k = 3 -> [mc EXCEPT !.motor_right_front = motor_stop(mc.motor_right_front, MOTOR_BIDIRECTIONAL)]
      [] k = 4 -> [mc EXCEPT !.motor_right_back  = motor_stop(mc.motor_right_back, MOTOR_BIDIRECTIONAL)]
      [] k = 5 -> [mc EXCEPT !.left_speed = 0]
      [] k = 6 -> [mc EXCEPT !.right_speed = 0]
      [] k = 7 -> [mc EXCEPT !.weapon_armed = FALSE]
      [] k = 8 -> [mc EXCEPT !.weapon = motor_disarm(mc.weapon)]
      [] k = 9 -> [mc EXCEPT !.weapon = motor_set_speed(mc.weapon, 0, MOTOR_BIDIRECTIONAL)]
      [] OTHER -> [mc EXCEPT !.weapon_speed = 0]

----------------------------------------------------------------------------
(* my_platform.c : controller reports and the input dispatcher             *)

(* gp->buttons and gp->misc_buttons are bit masks; a mask is kept as the   *)
(* set of the bits that are set.                                           *)
BUTTON_SHOULDER_L == "LB"
BUTTON_SHOULDER_R == "RB"
MISC_BUTTON_SYSTEM == "SYSTEM"

(* static uni_controller_t prev = {0} *)
ZeroReport ==
    [klass |-> "NONE", axis_y |-> 0, axis_ry |-> 0, throttle |-> 0,
     buttons |-> {}, misc_buttons |-> {}]

map_range(value, in_min, in_max, out_min, out_max) ==
    CDiv((value - in_min) * (out_max - out_min), in_max - in_min) + out_min

(* The file-scope state of my_platform.c that the dispatcher works on,     *)
(* gathered in one record so that the handlers compose.                    *)
PlatformState(mc, start, active, countdown, held, misc) ==
    [mc |-> mc, g_arm_hold_start |-> start, g_arm_hold_active |-> active,
     g_last_countdown |-> countdown, g_bumpers_held |-> held,
     g_prev_misc_buttons |-> misc]

(* held_time = now - g_arm_hold_start, as uint32_t *)
held_time(p, t) == u32_sub(t, p.g_arm_hold_start)

(* the condition under which check_arming_countdown looks at the hold *)
countdown_running(p) ==
    p.g_bumpers_held /\ p.g_arm_hold_active /\ ~motor_controller_is_weapon_armed(p.mc)

(* seconds_left, used only on the branch where held_time < ARM_HOLD_TIME_MS *)
seconds_left(p, t) == (ARM_HOLD_TIME_MS - held_time(p, t).lo + 999) \div 1000

(* check_arming_countdown that arms only after the boundary *)
check_arming_countdown_strict(p, t) ==
    IF countdown_running(p) /\ u32_gt(held_time(p, t), ARM_HOLD_TIME_MS)
    THEN [p EXCEPT !.mc = motor_controller_arm_weapon(p.mc),
                   !.g_last_countdown = -1]
    ELSE p

(* body of check_arming_countdown once g_motors_initialized is known true *)
check_arming_countdown(p, t) ==
    IF countdown_running(p)
    THEN IF u32_ge(held_time(p, t), ARM_HOLD_TIME_MS)
         THEN [p EXCEPT !.mc = motor_controller_arm_weapon(p.mc),
                        !.g_last_countdown = -1]
         ELSE IF seconds_left(p, t) # p.g_last_countdown /\ seconds_left(p, t) >= 0
              THEN [p EXCEPT !.g_last_countdown = seconds_left(p, t)]
              ELSE p
    ELSE p

(* what check_arming_countdown prints on its countdown branch: the seconds *)
(* left, 0 standing for ">>> ARMING! <<<", or nothing                      *)
countdown_note(p, t) ==
    IF /\ countdown_running(p)
       /\ ~u32_ge(held_time(p, t), ARM_HOLD_TIME_MS)
       /\ seconds_left(p, t) # p.g_last_countdown
       /\ seconds_left(p, t) >= 0
    THEN <<seconds_left(p, t)>>
    ELSE <<>>

(* check_arming_countdown reaches its call of motor_controller_arm_weapon *)
countdown_arms(p, t) ==
    countdown_running(p) /\ u32_ge(held_time(p, t), ARM_HOLD_TIME_MS)

both_held(gp) ==
    BUTTON_SHOULDER_L \in gp.buttons /\ BUTTON_SHOULDER_R \in gp.buttons

(* the three edge tests of process_controller_input *)
press_edge(p, gp) == both_held(gp) /\ ~p.g_bumpers_held
release_edge(p, gp) == ~both_held(gp) /\ p.g_bumpers_held
estop_edge(p, gp) ==
    MISC_BUTTON_SYSTEM \in gp.misc_buttons /\ MISC_BUTTON_SYSTEM \notin p.g_prev_misc_buttons

(* process_controller_input, "DRIVE CONTROL" and "WEAPON CONTROL" *)
drive_and_weapon(p, gp, t) ==
    LET left_speed   == map_range(gp.axis_y, STICK_MIN, STICK_MAX, -100, 100) * THROTTLE_INVERT
        right_speed  == map_range(gp.axis_ry, STICK_MIN, STICK_MAX, -100, 100) * THROTTLE_INVERT
        weapon_speed == map_range(gp.throttle, 0, TRIGGER_MAX, 0, 100)
    IN  [p EXCEPT !.mc = motor_controller_set_weapon(
                           motor_controller_tank_drive(p.mc, left_speed, right_speed, t),
                           weapon_speed, t)]

(* arm_disarm that starts the arming sequence without taking the time *)
arm_disarm_keeps_start(p, gp, t) ==
    IF press_edge(p, gp)
    THEN IF motor_controller_is_weapon_armed(p.mc)
         THEN [p EXCEPT !.g_bumpers_held = TRUE,
                        !.mc = motor_controller_disarm_weapon(p.mc)]
         ELSE [p EXCEPT !.g_bumpers_held = TRUE,
                        !.g_arm_hold_active = TRUE,
                        !.g_last_countdown = (ARM_HOLD_TIME_MS \div 1000) + 1]
    ELSE IF release_edge(p, gp)
         THEN [p EXCEPT !.g_bumpers_held = FALSE,
                        !.g_arm_hold_active = FALSE,
                        !.g_last_countdown = -1]
         ELSE p

(* arm_disarm without the else: a press always starts the arming sequence *)
arm_disarm_always_starts(p, gp, t) ==
    IF press_edge(p, gp)
    THEN [p EXCEPT !.g_bumpers_held = TRUE,
                   !.mc = IF motor_controller_is_weapon_armed(p.mc)
                          THEN motor_controller_disarm_weapon(p.mc) ELSE p.mc,
                   !.g_arm_hold_start = t,
                   !.g_arm_hold_active = TRUE,
                   !.g_last_countdown = (ARM_HOLD_TIME_MS \div 1000) + 1]
    ELSE IF release_edge(p, gp)
         THEN [p EXCEPT !.g_bumpers_held = FALSE,
                        !.g_arm_hold_active = FALSE,
                        !.g_last_countdown = -1]
         ELSE p

(* process_controller_input, "WEAPON ARM/DISARM" *)
(* arm_disarm whose release branch leaves g_arm_hold_active as it is *)
arm_disarm_release_keeps_active(p, gp, t) ==
    IF press_edge(p, gp)
    THEN IF motor_controller_is_weapon_armed(p.mc)
         THEN [p EXCEPT !.g_bumpers_held = TRUE,
                        !.mc = motor_controller_disarm_weapon(p.mc)]
         ELSE [p EXCEPT !.g_bumpers_held = TRUE,
                        !.g_arm_hold_start = t,
                        !.g_arm_hold_active = TRUE,
                        !.g_last_countdown = (ARM_HOLD_TIME_MS \div 1000) + 1]
    ELSE IF release_edge(p, gp)
         THEN [p EXCEPT !.g_bumpers_held = FALSE,
                        !.g_last_countdown = -1]
         ELSE p

arm_disarm(p, gp, t) ==
    IF press_edge(p, gp)
    THEN IF motor_controller_is_weapon_armed(p.mc)
         THEN [p EXCEPT !.g_bumpers_held = TRUE,
                        !.mc = motor_controller_disarm_weapon(p.mc)]
         ELSE [p EXCEPT !.g_bumpers_held = TRUE,
                        !.g_arm_hold_start = t,
                        !.g_arm_hold_active = TRUE,
                        !.g_last_countdown = (ARM_HOLD_TIME_MS \div 1000) + 1]
    ELSE IF release_edge(p, gp)
         THEN [p EXCEPT !.g_bumpers_held = FALSE,
                        !.g_arm_hold_active = FALSE,
                        !.g_last_countdown = -1]
         ELSE p

(* process_controller_input, "EMERGENCY STOP" and the button bookkeeping *)
emergency_stop(p, gp) ==
    [(IF estop_edge(p, gp)
      THEN [p EXCEPT !.mc = motor_controller_stop_all(p.mc)]
      ELSE p)
     EXCEPT !.g_prev_misc_buttons = gp.misc_buttons]

(* process_controller_input with the emergency stop handled first *)
process_controller_input_stop_first(p, gp, t) ==
    arm_disarm(drive_and_weapon(emergency_stop(p, gp), gp, t), gp, t)

(* body of process_controller_input once g_motors_initialized is known true *)
process_controller_input(p, gp, t) ==
    emergency_stop(arm_disarm(drive_and_weapon(p, gp, t), gp, t), gp)

(* my_platform_on_controller_data, after the telemetry block (which cannot *)
(* touch the motors: ENABLE_LOW_BATTERY_CUTOFF is false).  Returns the new *)
(* dispatcher state; prev is updated by the caller of this operator.       *)
(* on_controller_data that leaves the countdown to the timer *)
on_controller_data_no_countdown(p, initialized, prev_report, ctl, t) ==
    IF prev_report = ctl
    THEN IF initialized
         THEN [p EXCEPT !.mc = motor_controller_check_failsafe(p.mc, t)]
         ELSE p
    ELSE IF ctl.klass = "GAMEPAD" /\ initialized
         THEN process_controller_input(p, ctl, t)
         ELSE p

(* on_controller_data without the memcmp against prev *)
on_controller_data_no_diff(p, initialized, prev_report, ctl, t) ==
    LET p1 == IF initialized THEN check_arming_countdown(p, t) ELSE p
    IN  IF ctl.klass = "GAMEPAD" /\ initialized
        THEN process_controller_input(p1, ctl, t)
        ELSE p1

on_controller_data(p, initialized, prev_report, ctl, t) ==
    LET p1 == IF initialized THEN check_arming_countdown(p, t) ELSE p
    IN  IF prev_report = ctl
        THEN IF initialized
             THEN [p1 EXCEPT !.mc = motor_controller_check_failsafe(p1.mc, t)]
             ELSE p1
        ELSE IF ctl.klass = "GAMEPAD" /\ initialized
             THEN process_controller_input(p1, ctl, t)
             ELSE p1

----------------------------------------------------------------------------
(* State                                                                   *)

VARIABLES
    now,                    \* to_ms_since_boot(get_absolute_time()), uint32_t
    g_motors,               \* static motor_controller_t g_motors
    g_motors_initialized,
    g_prev_misc_buttons,
    g_arm_hold_start,       \* uint32_t
    g_arm_hold_active,
    g_last_countdown,
    g_bumpers_held,
    prev,                   \* static uni_controller_t prev in on_controller_data
    timer_running,          \* g_arming_timer has been added
    \* history variables, read by no handler
    advances,               \* number of clock advances so far
    lastOp,                 \* the handler or call that produced this state
    fs_stops,               \* stop_all calls made by the failsafe since the
                            \* last update_command_time
    fs_total,               \* stop_all calls made by the failsafe in all
    fs_checks,              \* check_failsafe calls that found the commands
                            \* stale since the last update_command_time
    press_time,             \* clock at the last bumper press that met a disarmed weapon
    press_ok,               \* that press is still held
    hold_cancelled,         \* stop_all/disarm ran during the current countdown
    hold_armed,             \* check_arming_countdown has called arm_weapon
                            \* since the last bumper press or release
    hold_rearmed,           \* ... and has called it again before the release
    \* a single motor_t driven directly through motor.h
    esc,                    \* the motor_t
    req,                    \* arguments of the call that produced this state
    \* the status page against an operation in progress
    status,                 \* out-parameters of the last motor_controller_get_status
    main_pc,                \* statements of motor_controller_stop_all already
                            \* executed by the interrupted context, 0 when none
    main_pre,               \* g_motors when that call began
    \* more history variables
    notes,                  \* seconds printed by check_arming_countdown since
                            \* the last "ARMING SEQUENCE" (0 stands for "ARMING!")
    real_idle,              \* ms since the last update_command_time, counted
                            \* without wrap-around, saturating at RealCap
    real_held,              \* ms for which g_bumpers_held has been true since
                            \* the dispatcher's last press edge, counted likewise
    link_lost               \* on_device_disconnected has run stop_all and no
                            \* report has arrived since (kept in SpecLink)

vars == <<now, g_motors, g_motors_initialized, g_prev_misc_buttons,
          g_arm_hold_start, g_arm_hold_active, g_last_countdown, g_bumpers_held,
          prev, timer_running, advances, lastOp, fs_stops, fs_total, fs_checks,
          press_time, press_ok, hold_cancelled, hold_armed, hold_rearmed,
          esc, req, status, main_pc, main_pre, notes, real_idle, real_held,
          link_lost>>

platform_vars == <<g_motors_initialized, g_prev_misc_buttons, g_arm_hold_start,
                   g_arm_hold_active, g_last_countdown, g_bumpers_held, prev,
                   timer_running, press_time, press_ok, hold_cancelled,
                   hold_armed, hold_rearmed, link_lost>>

unit_vars == <<esc, req>>

aux_vars == <<status, main_pc, main_pre, notes>>

real_vars == <<real_idle, real_held>>

----------------------------------------------------------------------------
(* Bounds of the model                                                     *)

MaxApiAdvances == 4
MaxPlatformAdvances == 3
MaxFires == 2

(* clock at the first modelled instant: main() has slept 2000 ms *)
BootTimes == {U32(0, 2000)}

(* amounts by which the clock moves between two calls *)
ApiSteps == {1, FAILSAFE_TIMEOUT_MS}
PlatformSteps == {1, ARM_HOLD_TIME_MS - 1}

(* arguments of the API calls: below -MOTOR_MAX_SPEED, inside the         *)
(* deadband, and the smallest magnitude outside it                        *)
DriveArgs == {-150, 5, MOTOR_DEADBAND}
WeaponArgs == {-20, 80, 150}

(* controller reports: left stick Y, right stick Y and right trigger      *)
(* (idle, both sticks at full deflection, trigger fully pulled), both      *)
(* bumpers, the system button                                              *)
AnalogArgs == {<<0, 0, 0>>, <<STICK_MIN, STICK_MAX, 0>>, <<0, 0, TRIGGER_MAX>>}
ButtonArgs == {{}, {BUTTON_SHOULDER_L, BUTTON_SHOULDER_R}}
MiscArgs == {{}, {MISC_BUTTON_SYSTEM}}
Reports ==
    {[klass |-> "GAMEPAD", axis_y |-> an[1], axis_ry |-> an[2], throttle |-> an[3],
      buttons |-> b, misc_buttons |-> m] :
        an \in AnalogArgs, b \in ButtonArgs, m \in MiscArgs}

Min(a, b) == IF a < b THEN a ELSE b

(* the history variables real_idle and real_held stop counting here *)
RealCap == ARM_HOLD_TIME_MS + FAILSAFE_TIMEOUT_MS

----------------------------------------------------------------------------
(* Initial states                                                          *)

InitStatics ==
    /\ g_motors_initialized = FALSE
    /\ g_prev_misc_buttons = {}
    /\ g_arm_hold_start = U32(0, 0)
    /\ g_arm_hold_active = FALSE
    /\ g_last_countdown = -1
    /\ g_bumpers_held = FALSE
    /\ prev = ZeroReport
    /\ timer_running = FALSE
    /\ advances = 0
    /\ fs_stops = 0
    /\ fs_total = 0
    /\ fs_checks = 0
    /\ press_time = U32(0, 0)
    /\ press_ok = FALSE
    /\ hold_cancelled = FALSE
    /\ hold_armed = FALSE
    /\ hold_rearmed = FALSE
    /\ link_lost = FALSE
    /\ real_idle = 0
    /\ real_held = 0
    /\ status = <<>>
    /\ main_pc = 0
    /\ main_pre = ZeroController
    /\ notes = <<>>

(* the motor_t and the call record are not used by the controller *)
InitUnit ==
    /\ esc = ZeroMotor
    /\ req = <<>>

(* the controller right after motor_controller_init *)
Init ==
    /\ now \in BootTimes
    /\ g_motors = motor_controller_init(ZeroController, now)
    /\ lastOp = "motor_controller_init"
    /\ InitStatics
    /\ InitUnit

(* power-up: statics zeroed, nothing initialised yet *)
InitPlatform ==
    /\ now \in BootTimes
    /\ g_motors = ZeroController
    /\ lastOp = "boot"
    /\ InitStatics
    /\ InitUnit

----------------------------------------------------------------------------
(* Actions of Spec: the motor_controller_* API                             *)

(* an accepted command: the call ends in update_command_time *)
Command(op, mc) ==
    /\ g_motors' = mc
    /\ lastOp' = op
    /\ fs_stops' = 0
    /\ fs_checks' = 0
    /\ real_idle' = 0
    /\ UNCHANGED <<now, advances, fs_total, platform_vars, unit_vars, aux_vars, real_held>>

SetLeft(speed) == Command("set_left", motor_controller_set_left(g_motors, speed, now))

SetRight(speed) == Command("set_right", motor_controller_set_right(g_motors, speed, now))

TankDrive(left, right) ==
    Command("tank_drive", motor_controller_tank_drive(g_motors, left, right, now))

ArcadeDrive(throttle, turn) ==
    Command("arcade_drive", motor_controller_arcade_drive(g_motors, throttle, turn, now))

SetWeapon(speed) ==
    Command("set_weapon", motor_controller_set_weapon(g_motors, speed, now))

ArmWeapon ==
    /\ g_motors' = motor_controller_arm_weapon(g_motors)
    /\ lastOp' = "arm_weapon"
    /\ UNCHANGED <<now, advances, fs_stops, fs_total, fs_checks, platform_vars, unit_vars,
                   aux_vars, real_vars>>

DisarmWeapon ==
    /\ g_motors' = motor_controller_disarm_weapon(g_motors)
    /\ lastOp' = "disarm_weapon"
    /\ UNCHANGED <<now, advances, fs_stops, fs_total, fs_checks, platform_vars, unit_vars,
                   aux_vars, real_vars>>

StopAll ==
    /\ g_motors' = motor_controller_stop_all(g_motors)
    /\ lastOp' = "stop_all"
    /\ UNCHANGED <<now, advances, fs_stops, fs_total, fs_checks, platform_vars, unit_vars,
                   aux_vars, real_vars>>

CheckFailsafe ==
    /\ g_motors' = motor_controller_check_failsafe(g_motors, now)
    /\ lastOp' = "check_failsafe"
    /\ fs_stops' = IF failsafe_fires(g_motors, now)
                   THEN Min(fs_stops + 1, MaxFires) ELSE fs_stops
    /\ fs_total' = IF failsafe_fires(g_motors, now)
                   THEN Min(fs_total + 1, MaxFires) ELSE fs_total
    /\ fs_checks' = IF check_failsafe_result(g_motors, now)
                    THEN Min(fs_checks + 1, MaxFires) ELSE fs_checks
    /\ UNCHANGED <<now, advances, platform_vars, unit_vars, aux_vars, real_vars>>

(* a caller that drops the out-parameters *)
GetStatus ==
    /\ g_motors' = motor_controller_get_status(g_motors).mc
    /\ lastOp' = "get_status"
    /\ UNCHANGED <<now, advances, fs_stops, fs_total, fs_checks, platform_vars,
                   unit_vars, aux_vars, real_vars>>

(* the clock moves on by d ms while nothing runs *)
AdvanceTime(d, max) ==
    /\ advances < max
    /\ now' = u32_add(now, d)
    /\ advances' = advances + 1
    /\ lastOp' = "advance_time"
    /\ real_idle' = Min(real_idle + d, RealCap)
    /\ real_held' = IF g_bumpers_held THEN Min(real_held + d, RealCap) ELSE real_held
    /\ UNCHANGED <<g_motors, fs_stops, fs_total, fs_checks, platform_vars, unit_vars, aux_vars>>

ApiAdvance == \E d \in ApiSteps : AdvanceTime(d, MaxApiAdvances)

Next ==
    \/ \E s \in DriveArgs : SetLeft(s)
    \/ \E s \in DriveArgs : SetRight(s)
    \/ \E l \in DriveArgs, r \in DriveArgs : TankDrive(l, r)
    \/ \E th \in DriveArgs, tu \in DriveArgs : ArcadeDrive(th, tu)
    \/ \E s \in WeaponArgs : SetWeapon(s)
    \/ ArmWeapon
    \/ DisarmWeapon
    \/ StopAll
    \/ CheckFailsafe
    \/ GetStatus
    \/ ApiAdvance

Spec == Init /\ [][Next]_vars

----------------------------------------------------------------------------
(* Actions of SpecPlatform: the callbacks of my_platform.c                 *)

Dispatcher ==
    PlatformState(g_motors, g_arm_hold_start, g_arm_hold_active,
                  g_last_countdown, g_bumpers_held, g_prev_misc_buttons)

(* writes a dispatcher state back to the file-scope variables *)
Store(p) ==
    /\ g_motors' = p.mc
    /\ g_arm_hold_start' = p.g_arm_hold_start
    /\ g_arm_hold_active' = p.g_arm_hold_active
    /\ g_last_countdown' = p.g_last_countdown
    /\ g_bumpers_held' = p.g_bumpers_held
    /\ g_prev_misc_buttons' = p.g_prev_misc_buttons

(* my_platform_on_init_complete *)
OnInitComplete ==
    /\ ~g_motors_initialized
    /\ g_motors' = motor_controller_init(g_motors, now)
    /\ g_motors_initialized' = TRUE
    /\ timer_running' = TRUE
    /\ lastOp' = "on_init_complete"
    /\ real_idle' = 0
    /\ UNCHANGED <<now, advances, g_prev_misc_buttons, g_arm_hold_start,
                   g_arm_hold_active, g_last_countdown, g_bumpers_held, prev,
                   fs_stops, fs_total, fs_checks, press_time, press_ok,
                   hold_cancelled, hold_armed, hold_rearmed, link_lost, real_held,
                   unit_vars, aux_vars>>

(* arming_timer_callback that only polls and leaves the countdown to the   *)
(* reports                                                                 *)
ArmingTimerCallbackPollOnly ==
    /\ timer_running
    /\ lastOp' = "arming_timer_callback"
    /\ UNCHANGED <<now, g_motors, advances, fs_stops, fs_total, fs_checks,
                   platform_vars, real_vars, unit_vars, status, main_pc, main_pre>>

(* arming_timer_callback but for what it prints.  The repeating timer is   *)
(* added with a period of TIMER_PERIOD_MS; the callback is allowed at      *)
(* every modelled instant once the timer runs, which covers every phase of *)
(* the period against the other callbacks.  A status page served under     *)
(* cyw43_arch_poll reads g_motors and leaves it alone (see StatusPage).    *)
ArmingTimerCallbackBody ==
    /\ timer_running
    /\ Store(IF g_motors_initialized
             THEN check_arming_countdown(Dispatcher, now)
             ELSE Dispatcher)
    /\ lastOp' = "arming_timer_callback"
    /\ hold_armed' = (hold_armed \/ (g_motors_initialized /\ countdown_arms(Dispatcher, now)))
    /\ hold_rearmed' = (hold_rearmed \/ (hold_armed /\ g_motors_initialized
                                          /\ countdown_arms(Dispatcher, now)))
    /\ UNCHANGED <<now, advances, g_motors_initialized, prev, timer_running,
                   fs_stops, fs_total, fs_checks, press_time, press_ok,
                   hold_cancelled, link_lost, real_vars, unit_vars,
                   status, main_pc, main_pre>>

(* arming_timer_callback, its printf calls left out *)
ArmingTimerCallback == ArmingTimerCallbackBody /\ UNCHANGED notes

(* my_platform_on_controller_data but for what it prints *)
OnControllerDataBody(ctl) ==
    LET processed == prev # ctl /\ ctl.klass = "GAMEPAD" /\ g_motors_initialized
        checked   == prev = ctl /\ g_motors_initialized
        p1 == IF g_motors_initialized
              THEN check_arming_countdown(Dispatcher, now) ELSE Dispatcher
        p2 == arm_disarm(drive_and_weapon(p1, ctl, now), ctl, now)
        fired     == checked /\ failsafe_fires(p1.mc, now)
        stopped   == processed /\ estop_edge(p2, ctl)
        pressed   == processed /\ both_held(ctl) /\ ~both_held(prev)
        released  == processed /\ ~both_held(ctl) /\ both_held(prev)
        arms      == g_motors_initialized /\ countdown_arms(Dispatcher, now)
    IN  /\ Store(on_controller_data(Dispatcher, g_motors_initialized, prev, ctl, now))
        /\ prev' = ctl
        /\ lastOp' = "on_controller_data"
        /\ fs_stops' = IF processed THEN 0
                       ELSE IF fired THEN Min(fs_stops + 1, MaxFires) ELSE fs_stops
        /\ fs_total' = IF fired THEN Min(fs_total + 1, MaxFires) ELSE fs_total
        /\ fs_checks' = IF processed THEN 0
                        ELSE IF checked /\ check_failsafe_result(p1.mc, now)
                             THEN Min(fs_checks + 1, MaxFires) ELSE fs_checks
        /\ press_ok' = IF pressed THEN ~g_motors.weapon_armed
                       ELSE IF released THEN FALSE ELSE press_ok
        /\ press_time' = IF pressed /\ ~g_motors.weapon_armed THEN now ELSE press_time
        /\ hold_cancelled' =
             IF stopped THEN countdown_running(p2)
             ELSE IF fired THEN countdown_running(p1) \/ hold_cancelled
             ELSE IF processed /\ (press_edge(p1, ctl) \/ release_edge(p1, ctl)) THEN FALSE
             ELSE hold_cancelled
        /\ hold_armed' =
             IF processed /\ (press_edge(p1, ctl) \/ release_edge(p1, ctl)) THEN FALSE
             ELSE hold_armed \/ arms
        /\ hold_rearmed' = (hold_rearmed \/ (hold_armed /\ arms))
        /\ real_idle' = IF processed THEN 0 ELSE real_idle
        /\ real_held' = IF processed /\ (press_edge(p1, ctl) \/ release_edge(p1, ctl))
                        THEN 0 ELSE real_held
        /\ link_lost' = FALSE
        /\ UNCHANGED <<now, advances, g_motors_initialized, timer_running, unit_vars,
                       status, main_pc, main_pre>>

(* my_platform_on_controller_data, its printf calls left out *)
OnControllerData(ctl) == OnControllerDataBody(ctl) /\ UNCHANGED notes

(* on_device_disconnected without the test of g_motors_initialized *)
OnDeviceDisconnectedUnguarded ==
    /\ g_motors' = motor_controller_stop_all(g_motors)
    /\ hold_cancelled' = ((g_motors_initialized /\ countdown_running(Dispatcher))
                          \/ hold_cancelled)
    /\ lastOp' = "on_device_disconnected"
    /\ UNCHANGED <<now, advances, g_motors_initialized, g_prev_misc_buttons,
                   g_arm_hold_start, g_arm_hold_active, g_last_countdown,
                   g_bumpers_held, prev, timer_running, fs_stops, fs_total,
                   fs_checks, press_time, press_ok, hold_armed, hold_rearmed,
                   real_vars, unit_vars, aux_vars>>

(* my_platform_on_device_disconnected but for the note that the link is    *)
(* lost                                                                    *)
OnDeviceDisconnectedBody ==
    /\ g_motors' = IF g_motors_initialized
                   THEN motor_controller_stop_all(g_motors) ELSE g_motors
    /\ hold_cancelled' = ((g_motors_initialized /\ countdown_running(Dispatcher))
                          \/ hold_cancelled)
    /\ lastOp' = "on_device_disconnected"
    /\ UNCHANGED <<now, advances, g_motors_initialized, g_prev_misc_buttons,
                   g_arm_hold_start, g_arm_hold_active, g_last_countdown,
                   g_bumpers_held, prev, timer_running, fs_stops, fs_total,
                   fs_checks, press_time, press_ok, hold_armed, hold_rearmed,
                   real_vars, unit_vars, aux_vars>>

(* my_platform_on_device_disconnected *)
OnDeviceDisconnected == OnDeviceDisconnectedBody /\ UNCHANGED link_lost

PlatformAdvance == \E d \in PlatformSteps : AdvanceTime(d, MaxPlatformAdvances)

NextPlatform ==
    \/ OnInitComplete
    \/ ArmingTimerCallback
    \/ \E ctl \in Reports : OnControllerData(ctl)
    \/ OnDeviceDisconnected
    \/ PlatformAdvance

SpecPlatform == InitPlatform /\ [][NextPlatform]_vars

----------------------------------------------------------------------------
(* Actions of SpecMotor: the motor_* API of motor.c on one motor_t         *)

(* largest magnitude of a speed passed to motor_set_speed *)
SpeedReqMax == 120

(* min_us, mid_us, max_us as motor_controller_init passes them *)
EscBounds == {<<DRIVE_MIN_US, DRIVE_MID_US, DRIVE_MAX_US>>,
              <<WEAPON_MIN_US, WEAPON_MID_US, WEAPON_MAX_US>>}

(* pulse widths asked of motor_set_pulse_us (uint16_t): both ends of the   *)
(* type, both safety limits and their neighbours, one ordinary value       *)
PulseReqs == {0, ESC_ABS_MIN_US - 1, ESC_ABS_MIN_US, ESC_ABS_MIN_US + 1,
              DRIVE_MID_US - 1, ESC_ABS_MAX_US - 1, ESC_ABS_MAX_US,
              ESC_ABS_MAX_US + 1, U16 - 1}

(* throttles asked of motor_set_throttle, as numerators over ThrottleDen *)
ThrottleReqs == {-ThrottleDen, 0, 1, ThrottleDen \div 2, ThrottleDen, 2 * ThrottleDen}

SpeedReqs == -SpeedReqMax..SpeedReqMax

controller_vars == <<now, g_motors, advances, fs_stops, fs_total, fs_checks, platform_vars,
                     aux_vars, real_vars>>

(* one motor_t right after motor_init; the controller is not used *)
InitMotor ==
    /\ now \in BootTimes
    /\ g_motors = ZeroController
    /\ InitStatics
    /\ \E b \in EscBounds :
          /\ esc = motor_init(ZeroMotor, b[1], b[2], b[3])
          /\ req = b
    /\ lastOp = "motor_init"

MotorCall(op, args, motor) ==
    /\ esc' = motor
    /\ req' = args
    /\ lastOp' = op
    /\ UNCHANGED controller_vars

MotorSetPulseUs(us) == MotorCall("motor_set_pulse_us", <<us>>, motor_set_pulse_us(esc, us))

MotorSetThrottle(throttle) ==
    MotorCall("motor_set_throttle", <<throttle>>, motor_set_throttle(esc, throttle))

MotorSetSpeed(speed, bidirectional) ==
    MotorCall("motor_set_speed", <<speed, bidirectional>>,
              motor_set_speed(esc, speed, bidirectional))

MotorStop(bidirectional) ==
    MotorCall("motor_stop", <<bidirectional>>, motor_stop(esc, bidirectional))

MotorArm == MotorCall("motor_arm", <<>>, motor_arm(esc))

MotorDisarm == MotorCall("motor_disarm", <<>>, motor_disarm(esc))

NextMotor ==
    \/ \E us \in PulseReqs : MotorSetPulseUs(us)
    \/ \E th \in ThrottleReqs : MotorSetThrottle(th)
    \/ \E s \in SpeedReqs, b \in BOOLEAN : MotorSetSpeed(s, b)
    \/ \E b \in BOOLEAN : MotorStop(b)
    \/ MotorArm
    \/ MotorDisarm

SpecMotor == InitMotor /\ [][NextMotor]_vars

----------------------------------------------------------------------------
(* Actions of SpecArcade: one motor_controller_arcade_drive call on the    *)
(* freshly initialised controller, for every pair of arguments             *)

(* largest magnitude of throttle and turn *)
ArcadeArgMax == 120

ArcadeArgs == -ArcadeArgMax..ArcadeArgMax

(* the controller right after motor_controller_init; req holds the         *)
(* throttle and the turn of the call to come                               *)
InitArcade ==
    /\ now \in BootTimes
    /\ g_motors = motor_controller_init(ZeroController, now)
    /\ lastOp = "motor_controller_init"
    /\ InitStatics
    /\ esc = ZeroMotor
    /\ req \in ArcadeArgs \X ArcadeArgs

ArcadeDriveReq ==
    /\ g_motors' = motor_controller_arcade_drive(g_motors, req[1], req[2], now)
    /\ lastOp' = "arcade_drive"
    /\ real_idle' = 0
    /\ UNCHANGED <<now, advances, fs_stops, fs_total, fs_checks, platform_vars, unit_vars,
                   aux_vars, real_held>>

NextArcade == ArcadeDriveReq

SpecArcade == InitArcade /\ [][NextArcade]_vars

----------------------------------------------------------------------------

----------------------------------------------------------------------------
(* SpecStatus: the status page against the operations on g_motors.  The   *)
(* calls of process_controller_input and motor_controller_stop_all run in  *)
(* the run loop started by main; generate_status_page runs under           *)
(* cyw43_arch_poll in arming_timer_callback, an alarm interrupt, and so    *)
(* between any two statements of the interrupted call.  Nothing in either  *)
(* path masks the interrupt or takes a lock.  motor_controller_stop_all is *)
(* taken statement by statement, the other calls whole.                    *)

(* the four out-parameters as generate_status_page receives them *)
StatusPage ==
    LET r == motor_controller_get_status(g_motors)
    IN  /\ g_motors' = r.mc
        /\ status' = [left |-> r.left, right |-> r.right,
                      weapon |-> r.weapon, armed |-> r.armed]
        /\ lastOp' = "get_status"
        /\ UNCHANGED <<now, advances, fs_stops, fs_total, fs_checks, platform_vars,
                       unit_vars, main_pc, main_pre, notes, real_vars>>

(* the next statement of motor_controller_stop_all *)
StopAllStep ==
    /\ g_motors' = stop_all_stmt(g_motors, main_pc + 1)
    /\ main_pre' = IF main_pc = 0 THEN g_motors ELSE main_pre
    /\ main_pc' = (main_pc + 1) % StopAllStmts
    /\ lastOp' = IF main_pc + 1 = StopAllStmts THEN "stop_all" ELSE "stop_all_stmt"
    /\ UNCHANGED <<now, advances, fs_stops, fs_total, fs_checks, platform_vars,
                   unit_vars, status, notes, real_vars>>

(* arguments of the calls made between two status pages: a stick pushed   *)
(* fully and one at rest, the trigger pressed and released                 *)
StatusDriveArgs == {-150, 5}
StatusWeaponArgs == {0, 80}

NextStatus ==
    \/ \E l \in StatusDriveArgs, r \in StatusDriveArgs : main_pc = 0 /\ TankDrive(l, r)
    \/ \E s \in StatusWeaponArgs : main_pc = 0 /\ SetWeapon(s)
    \/ main_pc = 0 /\ ArmWeapon
    \/ StopAllStep
    \/ StatusPage

SpecStatus == Init /\ [][NextStatus]_vars

----------------------------------------------------------------------------
(* SpecCountdown: the hold countdown under the repeating timer.  The clock *)
(* moves by one timer period, the callback runs, and reports arrive        *)
(* between two callbacks; what check_arming_countdown prints is kept in    *)
(* notes.                                                                  *)

(* timer periods covered *)
MaxTicks == 53

(* reports with the sticks and the trigger at rest: nothing held, or both  *)
(* bumpers held                                                            *)
CountdownReports ==
    {r \in Reports : /\ r.axis_y = 0 /\ r.axis_ry = 0 /\ r.throttle = 0
                     /\ r.misc_buttons = {}
                     /\ r.klass = "GAMEPAD"}

CountdownAdvance ==
    /\ lastOp # "advance_time"
    /\ AdvanceTime(TIMER_PERIOD_MS, MaxTicks)

(* the callback prints the seconds left when it stores them *)
CountdownTimerCallback ==
    /\ lastOp = "advance_time"
    /\ ArmingTimerCallbackBody
    /\ notes' = IF g_last_countdown' # g_last_countdown /\ g_last_countdown' >= 0
                THEN Append(notes, g_last_countdown') ELSE notes

CountdownReport(ctl) ==
    /\ lastOp # "advance_time"
    /\ OnControllerDataBody(ctl)
    /\ notes' = IF g_motors_initialized /\ prev # ctl
                   /\ press_edge(Dispatcher, ctl) /\ ~g_motors.weapon_armed
                THEN <<>>
                ELSE IF g_motors_initialized
                     THEN notes \o countdown_note(Dispatcher, now) ELSE notes

NextCountdown ==
    \/ OnInitComplete
    \/ CountdownTimerCallback
    \/ \E ctl \in CountdownReports : CountdownReport(ctl)
    \/ CountdownAdvance

SpecCountdown == InitPlatform /\ [][NextCountdown]_vars

----------------------------------------------------------------------------
(* SpecWrap: the callbacks when the uint32_t millisecond clock is about to *)
(* wrap, 2^32 ms after boot.  The controller was initialised at boot and   *)
(* no report has arrived since: only the timer callback has run.           *)

(* clock advances covered *)
MaxWrapAdvances == 3

(* FAILSAFE_TIMEOUT_MS and ARM_HOLD_TIME_MS before the clock wraps *)
WrapTimes ==
    {U32(U16 - 1, U16 - FAILSAFE_TIMEOUT_MS), U32(U16 - 1, U16 - ARM_HOLD_TIME_MS)}

WrapSteps == {1, FAILSAFE_TIMEOUT_MS, ARM_HOLD_TIME_MS - 1}

InitWrap ==
    /\ now \in WrapTimes
    /\ \E t \in BootTimes : g_motors = motor_controller_init(ZeroController, t)
    /\ g_motors_initialized = TRUE
    /\ timer_running = TRUE
    /\ lastOp = "arming_timer_callback"
    /\ g_prev_misc_buttons = {}
    /\ g_arm_hold_start = U32(0, 0)
    /\ g_arm_hold_active = FALSE
    /\ g_last_countdown = -1
    /\ g_bumpers_held = FALSE
    /\ prev = ZeroReport
    /\ advances = 0
    /\ fs_stops = 0 /\ fs_total = 0 /\ fs_checks = 0
    /\ press_time = U32(0, 0) /\ press_ok = FALSE
    /\ hold_cancelled = FALSE /\ hold_armed = FALSE /\ hold_rearmed = FALSE
    /\ link_lost = FALSE
    /\ real_idle = RealCap /\ real_held = 0
    /\ status = <<>> /\ main_pc = 0 /\ main_pre = ZeroController
    /\ notes = <<>>
    /\ InitUnit

WrapAdvance == \E d \in WrapSteps : AdvanceTime(d, MaxWrapAdvances)

NextWrap ==
    \/ ArmingTimerCallback
    \/ \E ctl \in CountdownReports : OnControllerData(ctl)
    \/ WrapAdvance

SpecWrap == InitWrap /\ [][NextWrap]_vars

----------------------------------------------------------------------------
(* SpecLink: the callbacks around a lost link, with reports that carry the *)
(* bumpers only                                                            *)

LinkLost ==
    /\ OnDeviceDisconnectedBody
    /\ link_lost' = (g_motors_initialized \/ link_lost)

NextLink ==
    \/ OnInitComplete
    \/ ArmingTimerCallback
    \/ \E ctl \in CountdownReports : OnControllerData(ctl)
    \/ LinkLost
    \/ PlatformAdvance

SpecLink == InitPlatform /\ [][NextLink]_vars

----------------------------------------------------------------------------
(* SpecSteady: reports that keep arriving, each less than                  *)
(* FAILSAFE_TIMEOUT_MS after the one before                                *)

MaxSteadyAdvances == 3

(* time between two consecutive reports *)
SteadySteps == {1, FAILSAFE_TIMEOUT_MS - 1}

(* the clock moves only once between a report and the next one *)
SteadyAdvance ==
    /\ lastOp = "on_controller_data"
    /\ \E d \in SteadySteps : AdvanceTime(d, MaxSteadyAdvances)

NextSteady ==
    \/ OnInitComplete
    \/ ArmingTimerCallback
    \/ \E ctl \in Reports : OnControllerData(ctl)
    \/ SteadyAdvance

SpecSteady == InitPlatform /\ [][NextSteady]_vars

----------------------------------------------------------------------------
(* Properties                                                              *)

StoppedDisarmed(mc) ==
    /\ mc.left_speed = 0
    /\ mc.right_speed = 0
    /\ mc.weapon_speed = 0
    /\ ~mc.weapon_armed

(* time for which the current bumper press has been held *)
press_held(t) == u32_sub(t, press_time)

(* C1: in every state reached through the controller API after             *)
(* motor_controller_init, a weapon speed above zero implies that the       *)
(* weapon is armed.                                                        *)
C1_WeaponSpeedImpliesArmed ==
    g_motors.weapon_speed > 0 => g_motors.weapon_armed

(* C2: set_weapon(s) stores 0 while the weapon is not armed and            *)
(* clamp(s, 0, MOTOR_MAX_SPEED) while it is armed.                         *)
C2_SetWeaponGated ==
    [][\A s \in WeaponArgs :
          SetWeapon(s) =>
             g_motors'.weapon_speed =
                 IF g_motors.weapon_armed THEN clamp(s, 0, MOTOR_MAX_SPEED) ELSE 0]_vars

(* C3: motor_controller_init leaves the controller stopped and disarmed,   *)
(* and the weapon goes from disarmed to armed only when a bumper hold      *)
(* completes.                                                              *)
C3_InitStoppedDisarmed ==
    [][/\ (lastOp' = "on_init_complete" => StoppedDisarmed(g_motors'))
       /\ (~g_motors.weapon_armed /\ g_motors'.weapon_armed /\ lastOp' # "on_init_complete"
             => press_ok /\ u32_ge(press_held(now), ARM_HOLD_TIME_MS))]_vars

(* C4: the failsafe calls stop_all at most once between two accepted       *)
(* commands, however often check_failsafe runs while stale, and a check    *)
(* with elapsed <= FAILSAFE_TIMEOUT_MS calls nothing and changes nothing.  *)
C4_FailsafeOncePerStalePeriod ==
    [][/\ fs_stops' <= 1
       /\ (lastOp' = "check_failsafe"
             /\ ~u32_gt(failsafe_elapsed(g_motors, now), FAILSAFE_TIMEOUT_MS)
           => g_motors' = g_motors /\ fs_total' = fs_total /\ fs_stops' = fs_stops)]_vars

(* C4 witness: a check ran while stale after the failsafe had fired, and   *)
(* the count of stop_all calls for this stale period is still one.         *)
C4_Witness ==
    /\ lastOp = "check_failsafe"
    /\ fs_checks = 2
    /\ fs_stops = 1
    /\ g_motors.failsafe_triggered

CommandOps == {"set_left", "set_right", "tank_drive", "arcade_drive", "set_weapon"}

(* C5: every accepted drive or weapon command sets last_command_time to    *)
(* the clock and clears failsafe_triggered, and the first check that finds *)
(* more than FAILSAFE_TIMEOUT_MS elapsed since the last accepted command   *)
(* calls stop_all, also when the failsafe had fired before that command.   *)
C5_CommandRearmsFailsafe ==
    [][/\ (lastOp' \in CommandOps
             => g_motors'.last_command_time_ms = now /\ ~g_motors'.failsafe_triggered)
       /\ (lastOp' = "check_failsafe" /\ fs_stops = 0
             /\ u32_gt(failsafe_elapsed(g_motors, now), FAILSAFE_TIMEOUT_MS)
           => fs_stops' = 1 /\ StoppedDisarmed(g_motors') /\ g_motors'.failsafe_triggered)]_vars

(* C5 witness: the failsafe has fired in two different stale periods *)
C5_Witness ==
    /\ lastOp = "check_failsafe"
    /\ fs_total = 2
    /\ fs_stops = 1
    /\ StoppedDisarmed(g_motors)

(* C6: the failsafe check runs on the timer tick: after a tick that finds  *)
(* more than FAILSAFE_TIMEOUT_MS elapsed since the last accepted command,  *)
(* the failsafe has been applied.                                          *)
C6_TimerTickAppliesFailsafe ==
    (/\ lastOp = "arming_timer_callback"
     /\ g_motors_initialized
     /\ u32_gt(failsafe_elapsed(g_motors, now), FAILSAFE_TIMEOUT_MS))
    => g_motors.failsafe_triggered

(* C7: a press of both bumpers that met a disarmed weapon at time t and    *)
(* has been held since makes the weapon armed at every timer tick with     *)
(* now - t >= ARM_HOLD_TIME_MS, the boundary included.                     *)
C7_HoldArmsAtBoundary ==
    [][(/\ lastOp' = "arming_timer_callback"
        /\ press_ok
        /\ both_held(prev)
        /\ u32_ge(press_held(now), ARM_HOLD_TIME_MS))
       => g_motors'.weapon_armed]_vars

(* C7 witness: the tick at exactly ARM_HOLD_TIME_MS has armed the weapon *)
C7_Witness ==
    /\ lastOp = "arming_timer_callback"
    /\ press_ok
    /\ both_held(prev)
    /\ press_held(now) = U32(0, ARM_HOLD_TIME_MS)
    /\ g_motors.weapon_armed

(* C8: a report that releases the bumpers before ARM_HOLD_TIME_MS has      *)
(* elapsed since the press leaves the weapon disarmed, the countdown state *)
(* discarded and the weapon speed 0, whatever trigger value it carries.    *)
C8_EarlyReleaseStopsWeapon ==
    [][(/\ press_ok
        /\ both_held(prev)
        /\ ~u32_ge(press_held(now), ARM_HOLD_TIME_MS)
        /\ lastOp' = "on_controller_data"
        /\ ~both_held(prev'))
       => /\ ~g_motors'.weapon_armed
          /\ ~g_arm_hold_active'
          /\ g_last_countdown' = -1
          /\ g_motors'.weapon_speed = 0]_vars

(* C9: from the armed state, a report in which both bumpers are newly held *)
(* leaves the weapon disarmed with weapon speed 0, whatever trigger value  *)
(* the report carries.                                                     *)
C9_TapDisarms ==
    [][(/\ g_motors.weapon_armed
        /\ ~both_held(prev)
        /\ lastOp' = "on_controller_data"
        /\ both_held(prev'))
       => /\ ~g_motors'.weapon_armed
          /\ g_motors'.weapon_speed = 0]_vars

(* C9 witness: a press that met an armed weapon, in a report with the      *)
(* trigger fully pulled, has been processed.                               *)
C9_Witness ==
    /\ lastOp = "on_controller_data"
    /\ g_motors_initialized
    /\ both_held(prev)
    /\ prev.throttle = TRIGGER_MAX
    /\ g_bumpers_held
    /\ ~g_arm_hold_active
    /\ ~g_motors.weapon_armed
    /\ g_motors.weapon_speed = 0

(* C10: once stop_all or disarm_weapon has run during a hold countdown,    *)
(* the weapon does not become armed until a new press starts a new         *)
(* countdown.                                                              *)
C10_DisarmCancelsCountdown ==
    [][(hold_cancelled /\ ~g_motors.weapon_armed) => ~g_motors'.weapon_armed]_vars

(* C11: within one continuous bumper hold check_arming_countdown calls     *)
(* motor_controller_arm_weapon at most once, whatever e-stop or failsafe   *)
(* does in between.  hold_rearmed records a second call in the same hold.  *)
C11_ArmedOncePerHold == ~hold_rearmed

(* the pulse at which motor_stop leaves an ESC of this build *)
stop_pulse(motor) == motor_stop(motor, MOTOR_BIDIRECTIONAL).pulse

(* C12: when motor_controller_stop_all returns, whatever the state before, *)
(* the three speeds are 0, the weapon is disarmed, the four drive ESCs are *)
(* at mid_us and the weapon ESC is at its stop pulse.                      *)
C12_StopAllStopsEverything ==
    lastOp = "stop_all" =>
        /\ StoppedDisarmed(g_motors)
        /\ \A m \in {g_motors.motor_left_front, g_motors.motor_left_back,
                     g_motors.motor_right_front, g_motors.motor_right_back} :
              m.pulse = m.mid_us
        /\ g_motors.weapon.pulse = stop_pulse(g_motors.weapon)
        /\ ~g_motors.weapon.armed

(* stop_all has returned at an instant later than motor_controller_init   *)
C12_Witness ==
    /\ lastOp = "stop_all"
    /\ advances > 0
    /\ g_motors.motor_left_front.pulse = DRIVE_MID_US
    /\ g_motors.weapon.pulse = WEAPON_MID_US
    /\ g_motors.weapon_speed = 0

(* C13: after any sequence of motor_controller_* calls, with arguments     *)
(* inside or outside the nominal ranges, left_speed and right_speed lie in *)
(* [-MOTOR_MAX_SPEED, MOTOR_MAX_SPEED] and weapon_speed in                 *)
(* [0, MOTOR_MAX_SPEED].                                                   *)
C13_SpeedsInRange ==
    /\ g_motors.left_speed \in -MOTOR_MAX_SPEED..MOTOR_MAX_SPEED
    /\ g_motors.right_speed \in -MOTOR_MAX_SPEED..MOTOR_MAX_SPEED
    /\ g_motors.weapon_speed \in 0..MOTOR_MAX_SPEED

(* both limits have been hit: a drive argument below -MOTOR_MAX_SPEED and  *)
(* a weapon argument above MOTOR_MAX_SPEED were stored clamped             *)
C13_Witness ==
    /\ g_motors.left_speed = -MOTOR_MAX_SPEED
    /\ g_motors.weapon_speed = MOTOR_MAX_SPEED

(* C14: every pulse written by motor_init, motor_set_pulse_us,             *)
(* motor_set_throttle, motor_set_speed and motor_stop lies in              *)
(* [ESC_ABS_MIN_US, ESC_ABS_MAX_US], whatever was asked for, and a pulse   *)
(* asked of motor_set_pulse_us inside these limits is written as asked.    *)
C14_PulseWithinSafetyLimits ==
    /\ esc.pulse \in ESC_ABS_MIN_US..ESC_ABS_MAX_US
    /\ (lastOp = "motor_set_pulse_us" /\ req[1] \in ESC_ABS_MIN_US..ESC_ABS_MAX_US)
          => esc.pulse = req[1]

(* a pulse above the upper limit was asked for and the limit was written *)
C14_Witness ==
    /\ lastOp = "motor_set_pulse_us"
    /\ req[1] > ESC_ABS_MAX_US
    /\ esc.pulse = ESC_ABS_MAX_US

(* a mixed value v rescaled against the other side's value, as the text    *)
(* of the mixing rule has it: by MOTOR_MAX_SPEED / max(|v|, |other|),      *)
(* truncated toward zero, when that maximum exceeds MOTOR_MAX_SPEED        *)
mix_scale(v, other) ==
    LET m == IF abs(other) > abs(v) THEN abs(other) ELSE abs(v)
    IN  IF m > MOTOR_MAX_SPEED THEN CDiv(v * MOTOR_MAX_SPEED, m) ELSE v

(* C15 as stated: arcade_drive(throttle, turn) stores                      *)
(* left = throttle + turn and right = throttle - turn, both rescaled by    *)
(* MOTOR_MAX_SPEED / max(|left|, |right|) with truncation toward zero when *)
(* that maximum exceeds MOTOR_MAX_SPEED.                                   *)
C15_ArcadeMixesArguments ==
    lastOp = "arcade_drive" =>
        /\ g_motors.left_speed = mix_scale(req[1] + req[2], req[1] - req[2])
        /\ g_motors.right_speed = mix_scale(req[1] - req[2], req[1] + req[2])

(* C15 amended: the sum and the difference are taken of the arguments      *)
(* after apply_deadband, rescaled as stated, and each result is stored by  *)
(* set_left / set_right, which store 0 for a magnitude below               *)
(* MOTOR_DEADBAND; arcade_drive(90, 40) stores left = 100, right = 38.     *)
C15_ArcadeMixesDeadbandedArguments ==
    lastOp = "arcade_drive" =>
        LET th == apply_deadband(req[1])
            tu == apply_deadband(req[2])
        IN  /\ g_motors.left_speed = apply_deadband(mix_scale(th + tu, th - tu))
            /\ g_motors.right_speed = apply_deadband(mix_scale(th - tu, th + tu))
            /\ req = <<90, 40>> => (g_motors.left_speed = 100 /\ g_motors.right_speed = 38)

(* arcade_drive(90, 40) has returned with the rescaled pair stored *)
C15_Witness ==
    /\ lastOp = "arcade_drive"
    /\ req = <<90, 40>>
    /\ g_motors.left_speed = 100
    /\ g_motors.right_speed = 38

sign(v) == IF v > 0 THEN 1 ELSE IF v < 0 THEN -1 ELSE 0

(* throttle and turn of the call both lie in [-MOTOR_MAX_SPEED, MOTOR_MAX_SPEED] *)
arcade_args_nominal ==
    /\ req[1] \in -MOTOR_MAX_SPEED..MOTOR_MAX_SPEED
    /\ req[2] \in -MOTOR_MAX_SPEED..MOTOR_MAX_SPEED

(* C16 as stated: for throttle and turn in [-100, 100], after arcade_drive *)
(* |left_speed| and |right_speed| are at most MOTOR_MAX_SPEED, and with    *)
(* throttle = 0 the sign of left_speed - right_speed is the sign of turn.  *)
C16_TurnSignFollowsTurn ==
    (lastOp = "arcade_drive" /\ arcade_args_nominal) =>
        /\ abs(g_motors.left_speed) <= MOTOR_MAX_SPEED
        /\ abs(g_motors.right_speed) <= MOTOR_MAX_SPEED
        /\ req[1] = 0 =>
              sign(g_motors.left_speed - g_motors.right_speed) = sign(req[2])

(* C16 amended: the bounds as stated; with throttle = 0 the sign of        *)
(* left_speed - right_speed is the sign of turn when |turn| is at least    *)
(* MOTOR_DEADBAND, and the two speeds are equal when |turn| is below it.   *)
C16_TurnSignFollowsDeadbandedTurn ==
    (lastOp = "arcade_drive" /\ arcade_args_nominal) =>
        /\ abs(g_motors.left_speed) <= MOTOR_MAX_SPEED
        /\ abs(g_motors.right_speed) <= MOTOR_MAX_SPEED
        /\ req[1] = 0 =>
              sign(g_motors.left_speed - g_motors.right_speed) =
                 (IF abs(req[2]) < MOTOR_DEADBAND THEN 0 ELSE sign(req[2]))

(* a pure left turn at full deflection: the sides run against each other *)
C16_Witness ==
    /\ lastOp = "arcade_drive"
    /\ req = <<0, -MOTOR_MAX_SPEED>>
    /\ g_motors.left_speed < 0
    /\ g_motors.right_speed > 0

(* the pulse motor_set_speed writes on a drive ESC for a stored speed *)
drive_pulse(speed) == DRIVE_MIN_US + ((speed + 100) * (DRIVE_MAX_US - DRIVE_MIN_US)) \div 200

(* the pair arcade_drive hands to set_left / set_right *)
arcade_mix ==
    LET th == apply_deadband(req[1])
        tu == apply_deadband(req[2])
    IN  <<mix_scale(th + tu, th - tu), mix_scale(th - tu, th + tu)>>

(* C17 as stated: the deadband acts on throttle and turn only; a mixed     *)
(* left or right value of magnitude below MOTOR_DEADBAND (throttle = 50,   *)
(* turn = 45: right = 5) is stored and forwarded to the ESCs unchanged.    *)
C17_MixedValuesStoredUnchanged ==
    lastOp = "arcade_drive" =>
        /\ g_motors.left_speed = arcade_mix[1]
        /\ g_motors.right_speed = arcade_mix[2]
        /\ g_motors.motor_left_front.pulse = drive_pulse(arcade_mix[1])
        /\ g_motors.motor_right_front.pulse = drive_pulse(arcade_mix[2])

(* C17 amended: the deadband acts on throttle and turn and, in set_left /  *)
(* set_right, on the mixed values too: a mixed value of magnitude below    *)
(* MOTOR_DEADBAND is stored as 0 and the side's ESCs get the pulse of      *)
(* speed 0; a mixed value of at least that magnitude is stored and         *)
(* forwarded unchanged.                                                    *)
C17_SmallMixedValuesZeroed ==
    lastOp = "arcade_drive" =>
        \A side \in {1, 2} :
            LET mixed  == arcade_mix[side]
                stored == IF side = 1 THEN g_motors.left_speed ELSE g_motors.right_speed
                escs   == IF side = 1
                          THEN {g_motors.motor_left_front, g_motors.motor_left_back}
                          ELSE {g_motors.motor_right_front, g_motors.motor_right_back}
            IN  /\ abs(mixed) < MOTOR_DEADBAND =>
                      (stored = 0 /\ \A m \in escs : m.pulse = m.mid_us)
                /\ abs(mixed) >= MOTOR_DEADBAND =>
                      (stored = mixed /\ \A m \in escs : m.pulse = drive_pulse(mixed))

(* arcade_drive(50, 45): the right side's mixed 5 was stored as 0 *)
C17_Witness ==
    /\ lastOp = "arcade_drive"
    /\ req = <<50, 45>>
    /\ g_motors.left_speed = 95
    /\ g_motors.right_speed = 0
    /\ g_motors.motor_right_front.pulse = DRIVE_MID_US

(* the speed set_left / set_right are said to store for an argument s *)
side_speed(s) ==
    LET d == IF abs(s) < MOTOR_DEADBAND THEN 0 ELSE s
    IN  IF d < -MOTOR_MAX_SPEED THEN -MOTOR_MAX_SPEED
        ELSE IF d > MOTOR_MAX_SPEED THEN MOTOR_MAX_SPEED ELSE d

(* the failsafe window restarts at the instant of the call *)
window_reset ==
    /\ g_motors'.last_command_time_ms = now
    /\ ~g_motors'.failsafe_triggered

weapon_untouched ==
    /\ g_motors'.weapon = g_motors.weapon
    /\ g_motors'.weapon_speed = g_motors.weapon_speed
    /\ g_motors'.weapon_armed = g_motors.weapon_armed

(* C18: set_left(s) stores clamp(deadband(s), -MOTOR_MAX_SPEED,            *)
(* MOTOR_MAX_SPEED) as left_speed, writes the pulse of that speed on both  *)
(* left ESCs, leaves the right side and the weapon as they were and        *)
(* restarts the failsafe window; set_right(s) likewise with the sides      *)
(* exchanged.                                                              *)
C18_SetSideStoresDeadbandedClamped ==
    [][\A s \in DriveArgs :
         /\ (lastOp' = "set_left" /\ SetLeft(s)) =>
              /\ g_motors'.left_speed = side_speed(s)
              /\ g_motors'.motor_left_front.pulse = drive_pulse(side_speed(s))
              /\ g_motors'.motor_left_back.pulse = drive_pulse(side_speed(s))
              /\ g_motors'.right_speed = g_motors.right_speed
              /\ g_motors'.motor_right_front = g_motors.motor_right_front
              /\ g_motors'.motor_right_back = g_motors.motor_right_back
              /\ weapon_untouched
              /\ window_reset
         /\ (lastOp' = "set_right" /\ SetRight(s)) =>
              /\ g_motors'.right_speed = side_speed(s)
              /\ g_motors'.motor_right_front.pulse = drive_pulse(side_speed(s))
              /\ g_motors'.motor_right_back.pulse = drive_pulse(side_speed(s))
              /\ g_motors'.left_speed = g_motors.left_speed
              /\ g_motors'.motor_left_front = g_motors.motor_left_front
              /\ g_motors'.motor_left_back = g_motors.motor_left_back
              /\ weapon_untouched
              /\ window_reset
      ]_vars

(* set_left has stored a clamped speed after the failsafe had fired, with  *)
(* the right side running and the weapon spinning                          *)
C18_Witness ==
    /\ lastOp = "set_left"
    /\ g_motors.left_speed = -MOTOR_MAX_SPEED
    /\ g_motors.motor_left_back.pulse = DRIVE_MIN_US
    /\ g_motors.right_speed > 0
    /\ g_motors.weapon_speed > 0
    /\ fs_total > 0
    /\ ~g_motors.failsafe_triggered

(* C19: motor_set_speed(speed, bidirectional) first limits speed to        *)
(* [-100, 100]; bidirectional, the pulse is affine in the speed with -100  *)
(* at min_us, 0 at mid_us and 100 at max_us; unidirectional, the pulse is  *)
(* min_us + |speed|/100 of (max_us - min_us), the same for speed and       *)
(* -speed.                                                                 *)
C19_SetSpeedMapping ==
    lastOp = "motor_set_speed" =>
        LET s     == IF req[1] < -100 THEN -100 ELSE IF req[1] > 100 THEN 100 ELSE req[1]
            range == esc.max_us - esc.min_us
        IN  IF req[2]
            THEN /\ 200 * (esc.pulse - esc.min_us) = (s + 100) * range
                 /\ s = -100 => esc.pulse = esc.min_us
                 /\ s = 0 => esc.pulse = esc.mid_us
                 /\ s = 100 => esc.pulse = esc.max_us
            ELSE /\ 100 * (esc.pulse - esc.min_us) = abs(s) * range
                 /\ esc.pulse = motor_set_speed(esc, -req[1], FALSE).pulse

(* a unidirectional speed below -100 was written as full throttle *)
C19_Witness ==
    /\ lastOp = "motor_set_speed"
    /\ req = <<-SpeedReqMax, FALSE>>
    /\ esc.pulse = esc.max_us

snapshot(mc) ==
    [left |-> mc.left_speed, right |-> mc.right_speed,
     weapon |-> mc.weapon_speed, armed |-> mc.weapon_armed]

(* C21: a call of get_status returns the current left_speed, right_speed,  *)
(* weapon_speed and weapon_armed and leaves the whole controller, with     *)
(* last_command_time_ms, failsafe_triggered and the pulse of every motor,  *)
(* as it was.                                                              *)
C21_GetStatusReadsOnly ==
    [][lastOp' = "get_status" =>
         /\ g_motors' = g_motors
         /\ status' = snapshot(g_motors)]_vars

(* a status page built while the weapon is armed and everything runs *)
C21_Witness ==
    /\ lastOp = "get_status"
    /\ main_pc = 0
    /\ status = snapshot(g_motors)
    /\ status.armed /\ status.weapon > 0
    /\ status.left # 0 /\ status.right # 0

(* the controller states between which the interrupted operation runs *)
operation_ends ==
    IF main_pc = 0 THEN {g_motors}
    ELSE {main_pre, motor_controller_stop_all(main_pre)}

(* C22: the four fields a status page shows all come from one controller   *)
(* state that exists between two complete operations, also when the page   *)
(* is built while motor_controller_stop_all is in progress.                *)
C22_SnapshotNotTorn ==
    lastOp = "get_status" => \E mc \in operation_ends : status = snapshot(mc)

(* motor_controller_stop_all taken statement by statement ends where the   *)
(* call taken whole ends                                                   *)
StopAllStmtsAgree ==
    lastOp = "stop_all" /\ main_pre # ZeroController
        => g_motors = motor_controller_stop_all(main_pre)

(* C23: a hold that runs to the end without interruption has printed one   *)
(* countdown notification for each value of seconds_left, in decreasing    *)
(* order, and then the terminal "ARMING!" notification at 0, by the time   *)
(* check_arming_countdown arms the weapon.                                 *)
C23_CountdownEndsWithArming ==
    hold_armed /\ ~hold_cancelled /\ ~hold_rearmed
        => notes = <<5, 4, 3, 2, 1, 0>>

(* the countdown as the code prints it: the hold has armed the weapon and  *)
(* the notifications stop at 1                                             *)
CountdownStopsAtOne ==
    hold_armed /\ ~hold_cancelled /\ ~hold_rearmed
        => notes = <<5, 4, 3, 2, 1>>

(* C24: once a countdown has started and the bumpers stay held, the        *)
(* countdown has armed the weapon by the end of the first timer callback   *)
(* at or after ARM_HOLD_TIME_MS, whether no report, or only reports equal  *)
(* to the previous one, arrived in between.                                *)
C24_TickArmsWithoutInput ==
    (/\ press_ok
     /\ real_held >= ARM_HOLD_TIME_MS
     /\ lastOp # "advance_time")
    => /\ hold_armed
       /\ lastOp = "arming_timer_callback" => g_motors.weapon_armed

(* the callback at ARM_HOLD_TIME_MS has armed the weapon and no report has *)
(* arrived since the one with the press                                    *)
C24_Witness ==
    /\ lastOp = "arming_timer_callback"
    /\ press_ok
    /\ real_held = ARM_HOLD_TIME_MS
    /\ real_idle = ARM_HOLD_TIME_MS
    /\ fs_checks = 0
    /\ hold_armed
    /\ g_motors.weapon_armed

(* the bumpers are held from a press that met an armed weapon *)
tap_held == g_bumpers_held /\ ~g_arm_hold_active

(* C25: a report whose press edge meets an armed weapon leaves the weapon  *)
(* disarmed with no countdown started, and while the bumpers stay held     *)
(* after it no handler arms the weapon or starts a countdown: only a       *)
(* release and a new press do.                                             *)
C25_TapNeverArms ==
    [][/\ (/\ lastOp' = "on_controller_data"
           /\ g_motors.weapon_armed
           /\ ~g_bumpers_held
           /\ g_bumpers_held')
          => (~g_motors'.weapon_armed /\ ~g_arm_hold_active')
       /\ (tap_held /\ g_bumpers_held')
          => (/\ ~g_motors.weapon_armed
              /\ ~g_motors'.weapon_armed
              /\ ~g_arm_hold_active'
              /\ hold_armed' = hold_armed)]_vars

(* the bumpers have been held for ARM_HOLD_TIME_MS since the press that    *)
(* disarmed the weapon, the timer callback has run, nothing is armed       *)
C25_Witness ==
    /\ lastOp = "arming_timer_callback"
    /\ tap_held
    /\ both_held(prev)
    /\ real_idle >= ARM_HOLD_TIME_MS
    /\ fs_checks = 0
    /\ ~g_motors.weapon_armed

(* C26: the staleness of the commands and the hold time are differences    *)
(* mod 2^32: also when the clock wraps between the reference and now, the  *)
(* failsafe finds the commands stale exactly when more than                *)
(* FAILSAFE_TIMEOUT_MS of real time have passed since the last command,    *)
(* and the countdown arms exactly when the press has really been held for  *)
(* ARM_HOLD_TIME_MS.                                                       *)
C26_WrapTolerant ==
    /\ check_failsafe_result(g_motors, now) <=> real_idle > FAILSAFE_TIMEOUT_MS
    /\ press_ok /\ countdown_running(Dispatcher)
          => (countdown_arms(Dispatcher, now) <=> real_held >= ARM_HOLD_TIME_MS)
    /\ hold_armed => real_held >= ARM_HOLD_TIME_MS

(* a hold that began before the wrap has armed the weapon at                *)
(* ARM_HOLD_TIME_MS, after the wrap, with the last command before the wrap *)
C26_Witness ==
    /\ lastOp = "arming_timer_callback"
    /\ g_arm_hold_start.hi = U16 - 1
    /\ g_motors.last_command_time_ms.hi = U16 - 1
    /\ now.hi = 0
    /\ real_held = ARM_HOLD_TIME_MS
    /\ hold_armed
    /\ g_motors.weapon_armed

(* C27: a call of check_failsafe returns true exactly when more than       *)
(* FAILSAFE_TIMEOUT_MS have passed since the last accepted command, and    *)
(* failsafe_triggered is then true after the call; when it returns false   *)
(* the controller is as it was before the call.                            *)
C27_CheckFailsafeResult ==
    [][lastOp' = "check_failsafe" =>
         /\ check_failsafe_result(g_motors, now) <=> real_idle > FAILSAFE_TIMEOUT_MS
         /\ check_failsafe_result(g_motors, now) => g_motors'.failsafe_triggered
         /\ ~check_failsafe_result(g_motors, now) => g_motors' = g_motors]_vars

(* a check FAILSAFE_TIMEOUT_MS + 1 ms after a command that had the robot   *)
(* moving has returned true and latched                                    *)
C27_Witness ==
    /\ lastOp = "check_failsafe"
    /\ real_idle = FAILSAFE_TIMEOUT_MS + 1
    /\ check_failsafe_result(g_motors, now)
    /\ g_motors.failsafe_triggered
    /\ fs_stops = 1
    /\ fs_checks = 1

(* C28: a processed report in which the system button is newly pressed     *)
(* leaves all three speeds 0 and the weapon disarmed, whatever the sticks, *)
(* the trigger and the bumpers are in that report.                         *)
C28_EmergencyStopWins ==
    [][(/\ lastOp' = "on_controller_data"
        /\ g_motors_initialized
        /\ prev' # prev
        /\ MISC_BUTTON_SYSTEM \in prev'.misc_buttons
        /\ MISC_BUTTON_SYSTEM \notin prev.misc_buttons)
       => StoppedDisarmed(g_motors')]_vars

(* a report with the system button, both sticks at full deflection and     *)
(* both bumpers has just been processed and everything is stopped          *)
C28_Witness ==
    /\ lastOp = "on_controller_data"
    /\ real_idle = 0
    /\ MISC_BUTTON_SYSTEM \in prev.misc_buttons
    /\ MISC_BUTTON_SYSTEM \in g_prev_misc_buttons
    /\ prev.axis_y = STICK_MIN
    /\ both_held(prev)
    /\ StoppedDisarmed(g_motors)

(* a step in which motor_controller_arm_weapon runs or weapon_armed turns  *)
(* true                                                                    *)
arming_step ==
    \/ ~g_motors.weapon_armed /\ g_motors'.weapon_armed
    \/ /\ lastOp' \in {"arming_timer_callback", "on_controller_data"}
       /\ countdown_arms(Dispatcher, now)

(* C29: once the controller is initialised, the weapon is armed only by a  *)
(* step taken while the dispatcher has both bumpers held, from a press     *)
(* edge that started the hold at least ARM_HOLD_TIME_MS earlier; no other  *)
(* step arms it.                                                           *)
C29_ArmedOnlyByFullHold ==
    [][g_motors_initialized /\ arming_step
         => /\ lastOp' \in {"arming_timer_callback", "on_controller_data"}
            /\ g_bumpers_held
            /\ g_arm_hold_active
            /\ real_held >= ARM_HOLD_TIME_MS]_vars

(* a first arming by the hold, by the timer callback at ARM_HOLD_TIME_MS *)
C29_Witness ==
    /\ g_motors.weapon_armed
    /\ hold_armed /\ ~hold_rearmed
    /\ g_bumpers_held
    /\ press_ok
    /\ real_held = ARM_HOLD_TIME_MS
    /\ lastOp = "arming_timer_callback"

(* C30: after on_device_disconnected has run stop_all, the weapon stays    *)
(* disarmed for as long as no controller report arrives, whatever the      *)
(* bumper and countdown state was at the disconnect: timer callbacks alone *)
(* do not arm it.                                                          *)
C30_DisconnectKeepsDisarmed ==
    link_lost => ~g_motors.weapon_armed

(* C31: while controller reports keep arriving at intervals shorter than   *)
(* FAILSAFE_TIMEOUT_MS, identical consecutive reports included, the        *)
(* failsafe never calls motor_controller_stop_all.                         *)
C31_SteadyReportsNeverTripFailsafe ==
    fs_total = 0

(* C32: whenever the failsafe latch failsafe_triggered is set, the weapon  *)
(* is disarmed; a hold countdown that completes while the commands are     *)
(* stale does not arm it.                                                  *)
C32_FailsafeImpliesDisarmed ==
    g_motors.failsafe_triggered => ~g_motors.weapon_armed

(* C33: whenever the failsafe latch failsafe_triggered is set, the stored  *)
(* left, right and weapon speeds are all zero: an operation that stores a  *)
(* speed also clears the latch.                                            *)
C33_FailsafeImpliesStopped ==
    g_motors.failsafe_triggered =>
        /\ g_motors.left_speed = 0
        /\ g_motors.right_speed = 0
        /\ g_motors.weapon_speed = 0

(* the latch set for the second time, a command having cleared it in       *)
(* between, and an operation run under it                                  *)
C33_Witness ==
    /\ g_motors.failsafe_triggered
    /\ fs_total = 2
    /\ lastOp = "arm_weapon"

(* process_controller_input reaches its printf("Arming cancelled\n") *)
arming_cancelled(p, gp) ==
    release_edge(p, gp) /\ ~motor_controller_is_weapon_armed(p.mc) /\ p.g_arm_hold_active

(* this step is on_controller_data processing the report that releases     *)
(* the bumpers of a countdown held for ARM_HOLD_TIME_MS or longer          *)
late_release ==
    /\ lastOp' = "on_controller_data"
    /\ g_motors_initialized
    /\ g_bumpers_held /\ g_arm_hold_active
    /\ real_held >= ARM_HOLD_TIME_MS
    /\ prev' # prev
    /\ ~both_held(prev')

(* the countdown check of that call came first: the weapon ends armed and  *)
(* "Arming cancelled" is not printed                                       *)
armed_not_cancelled ==
    /\ g_motors'.weapon_armed
    /\ ~arming_cancelled(drive_and_weapon(check_arming_countdown(Dispatcher, now),
                                          prev', now), prev')

(* C34: when on_controller_data processes the report that releases bumpers *)
(* held for at least ARM_HOLD_TIME_MS, the countdown check of that call    *)
(* runs before the release is handled: the weapon ends armed and nothing   *)
(* is cancelled, with or without a timer tick since the mark.              *)
C34_LateReleaseArms ==
    [][late_release => armed_not_cancelled]_vars

(* C34 amended: ... unless that report also carries the edge of the system *)
(* button, whose emergency stop runs last and disarms.                     *)
C34_LateReleaseArmsUnlessStopped ==
    [][(late_release /\ ~estop_edge(Dispatcher, prev')) => armed_not_cancelled]_vars

(* a release processed ARM_HOLD_TIME_MS after the press, weapon armed      *)
C34_Witness ==
    /\ lastOp = "on_controller_data"
    /\ ~g_bumpers_held
    /\ ~g_arm_hold_active
    /\ press_held(now) = U32(0, ARM_HOLD_TIME_MS)
    /\ g_motors.weapon_armed
    /\ fs_total = 0

(* this step is on_controller_data given the report it was given last *)
repeated_report ==
    /\ lastOp' = "on_controller_data"
    /\ prev' = prev

(* the failsafe check of this on_controller_data call runs stop_all *)
failsafe_stops ==
    /\ g_motors_initialized
    /\ failsafe_fires(check_arming_countdown(Dispatcher, now).mc, now)

(* C35: a report identical to the one before issues no drive or weapon     *)
(* command and no bumper or system-button edge: the stored speeds and      *)
(* last_command_time change only if the failsafe check of that call runs   *)
(* stop_all, and weapon_armed changes only through that failsafe or        *)
(* through the hold countdown completing.                                  *)
C35_RepeatedReportIssuesNothing ==
    [][repeated_report =>
        /\ failsafe_stops \/
             /\ g_motors'.left_speed = g_motors.left_speed
             /\ g_motors'.right_speed = g_motors.right_speed
             /\ g_motors'.weapon_speed = g_motors.weapon_speed
        /\ g_motors'.last_command_time_ms = g_motors.last_command_time_ms
        /\ g_bumpers_held' = g_bumpers_held
        /\ g_arm_hold_active' = g_arm_hold_active
        /\ g_arm_hold_start' = g_arm_hold_start
        /\ g_prev_misc_buttons' = g_prev_misc_buttons
        /\ (g_motors'.weapon_armed # g_motors.weapon_armed) =>
               (failsafe_stops \/ countdown_arms(Dispatcher, now))
      ]_vars

(* a repeated report, 1 ms after the one that set the sticks, has left the *)
(* robot driving                                                           *)
C35_Witness ==
    /\ lastOp = "on_controller_data"
    /\ real_idle = 1
    /\ g_motors.left_speed # 0
    /\ g_motors.right_speed # 0
    /\ ~g_motors.failsafe_triggered

(* C36: the countdown bookkeeping agrees with the bumper state: whenever   *)
(* g_arm_hold_active is set, g_bumpers_held is set too, so no countdown is *)
(* active while the bumpers are seen as released.                          *)
C36_HoldActiveImpliesBumpersHeld ==
    g_arm_hold_active => g_bumpers_held

(* a countdown one millisecond short of its end, seen by the timer         *)
C36_Witness ==
    /\ g_arm_hold_active
    /\ g_bumpers_held
    /\ ~g_motors.weapon_armed
    /\ real_held = ARM_HOLD_TIME_MS - 1
    /\ lastOp = "arming_timer_callback"

(* both ESCs of each side carry the pulse mapped from the stored speed *)
sides_follow_speeds(mc) ==
    /\ mc.motor_left_front.pulse = drive_pulse(mc.left_speed)
    /\ mc.motor_left_back.pulse = drive_pulse(mc.left_speed)
    /\ mc.motor_right_front.pulse = drive_pulse(mc.right_speed)
    /\ mc.motor_right_back.pulse = drive_pulse(mc.right_speed)

(* C37: between operations after initialization, the two drive motors of a *)
(* side carry the same last-written pulse, the one mapped from the stored  *)
(* side speed, min + (speed + 100) * (max - min) / 200; it is mid_us when  *)
(* the stored speed is 0.                                                  *)
C37_SidePulsesFollowSpeeds ==
    /\ sides_follow_speeds(g_motors)
    /\ drive_pulse(0) = DRIVE_MID_US

(* one side reversed at full speed, the other just outside the deadband    *)
C37_Witness ==
    /\ g_motors.left_speed = -MOTOR_MAX_SPEED
    /\ g_motors.right_speed = MOTOR_DEADBAND
    /\ g_motors.motor_left_back.pulse = DRIVE_MIN_US
    /\ g_motors.motor_right_back.pulse > DRIVE_MID_US

(* C38: from the end of motor_controller_init on, a stored weapon speed of *)
(* 0 implies that the pulse last written to the weapon ESC is its stop     *)
(* pulse, mid_us for an ESC driven as bidirectional.                       *)
C38_WeaponStoppedAtStopPulse ==
    g_motors.weapon_speed = 0 => g_motors.weapon.pulse = stop_pulse(g_motors.weapon)

(* C39: no state-changing operation of the motor controller runs before    *)
(* motor_controller_init has completed: while g_motors_initialized is      *)
(* false the report handler, the countdown check and the disconnect        *)
(* handler leave g_motors untouched, and the timer has not been started.   *)
C39_NothingBeforeInit ==
    ~g_motors_initialized =>
        /\ g_motors = ZeroController
        /\ ~timer_running

(* before initialization: time has passed, a report with both bumpers has  *)
(* been delivered and the link has then been lost                          *)
C39_Witness ==
    /\ ~g_motors_initialized
    /\ both_held(prev)
    /\ advances > 0
    /\ lastOp = "on_device_disconnected"

============================================================================
